---- MODULE Spec2Model ----
(***************************************************************************)
(* Model of the shoe catalog backend: the write service (create, update    *)
(* with optimistic concurrency, delete, addFile), the read service's       *)
(* findById, the REST and GraphQL entry points that feed them, and the     *)
(* relational store with its constraints.                                  *)
(*                                                                         *)
(* Every request is an asynchronous function.  It runs without             *)
(* interruption up to a store call; the store call itself is one atomic    *)
(* step of the store; requests interleave between their store calls.  A    *)
(* request whose next store call is pending is an element of the bag       *)
(* inflight.                                                               *)
(***************************************************************************)
EXTENDS Integers, Sequences, FiniteSets, Bags, TLC

VARIABLES
    schuh,      \* table schuh: id -> row, for the ids that have a row
    modell,     \* table modell: the schuh_id values that have a row
    abbildung,  \* table abbildung: schuh_id -> number of rows
    schuhFile,  \* table schuh_file: schuh_id -> the filenames of its rows,
                \* for the schuh_id values that have a row
    nextId,     \* next value of the identity sequence of table schuh
    inflight,   \* bag of requests suspended at a store call
    last,       \* the request that completed last (with its data once it
                \* has reached a transaction) and its outcome
    mailbox,    \* history: ids for which create() called the mail service
    updates,    \* history: id -> number of update() calls that succeeded
    deleted,    \* history: ids whose row was deleted
    ops         \* number of requests started so far

vars == <<schuh, modell, abbildung, schuhFile, nextId, inflight, last, mailbox,
          updates, deleted, ops>>

store == <<schuh, modell, abbildung, schuhFile, nextId>>

history == <<mailbox, updates, deleted>>

-----------------------------------------------------------------------------
(* Bounds of the model *)

MaxOps == 3
MaxProducts == 2
MaxTagNum == 2
MaxInFlight == 2

-----------------------------------------------------------------------------
(* Values *)

StartId == 1000
NoId == -1
NaN == -1
Undefined == "undefined"

Ids == StartId .. (StartId + MaxProducts - 1)
Artikelnummern == {"SH001", "SH002"}
Bewertungen == {1, 2}
Dateinamen == {"a.png", "b.png"}

Q == "\""
Digits == <<"0", "1", "2", "3", "4", "5", "6", "7", "8", "9">>

IsDigit(c) == \E i \in 1..10 : Digits[i] = c

DigitVal(c) == (CHOOSE i \in 1..10 : Digits[i] = c) - 1

\* Number.prototype.toString for a non-negative integer
RECURSIVE NumberToString(_)
NumberToString(n) ==
    IF n < 10 THEN <<Digits[n + 1]>>
    ELSE NumberToString(n \div 10) \o <<Digits[(n % 10) + 1]>>

\* the template literal `"${n}"`
Quoted(n) == <<Q>> \o NumberToString(n) \o <<Q>>

\* String.prototype.slice(1, -1)
Slice1(s) == IF Len(s) < 2 THEN <<>> ELSE SubSeq(s, 2, Len(s) - 1)

\* Number.parseInt(s, 10) on text without white space or sign: the value of
\* the longest prefix of digits, NaN when that prefix is empty
RECURSIVE ParseDigits(_, _)
ParseDigits(s, acc) ==
    IF s = <<>> \/ ~IsDigit(Head(s)) THEN acc
    ELSE ParseDigits(Tail(s), acc * 10 + DigitVal(Head(s)))

parseInt(s) == IF s = <<>> \/ ~IsDigit(Head(s)) THEN NaN ELSE ParseDigits(s, 0)

\* VERSION_PATTERN.test(s) for /^"\d{1,3}"/u: anchored at the start only
VERSION_PATTERN(s) ==
    \E n \in 1..3 :
        /\ Len(s) >= n + 2
        /\ s[1] = Q
        /\ \A i \in 2..(n + 1) : IsDigit(s[i])
        /\ s[n + 2] = Q

\* values of the header If-Match that the model sends
WellFormedTags == {Quoted(n) : n \in 0..MaxTagNum}
MalformedTags ==
    { <<"a", "b", "c">>,             \* abc
      <<"1">>,                       \* 1
      <<Q, Q>>,                      \* ""
      Quoted(1000) }                 \* "1000"
TrailingTags == { Quoted(1) \o <<"x">> }    \* "1"x
Tags == WellFormedTags \cup MalformedTags \cup TrailingTags

-----------------------------------------------------------------------------
(* Requests and their data *)

\* the request bodies: SchuhDTO for create (with its images), SchuhDtoOhneRef
\* and SchuhUpdateDTO for update; artikelnummer carries no validation
\* decorator, so it may be missing
DTOs ==
    [artikelnummer : Artikelnummern \cup {Undefined},
     bewertung : Bewertungen,
     abbildungen : {0, 1}]

\* POST sends a new shoe with or without an image
CreateDTOs == {d \in DTOs : d.bewertung = 1}

\* PUT and the mutation update send no images
UpdateDTOs == {d \in DTOs : d.abbildungen = 0}

NoVersion == [kind |-> "absent", n |-> 0]

NoSchuh ==
    [version |-> NoVersion, artikelnummer |-> Undefined, bewertung |-> 0,
     abbildungen |-> 0]

\* SchuhWriteController.#schuhDtoToSchuhCreateInput and
\* SchuhMutationResolver.#schuhDtoToSchuhCreate build the same input
schuhDtoToSchuhCreateInput(schuhDTO) ==
    [version |-> [kind |-> "set", n |-> 0],
     artikelnummer |-> schuhDTO.artikelnummer,
     bewertung |-> schuhDTO.bewertung,
     abbildungen |-> schuhDTO.abbildungen]

\* SchuhWriteController.#schuhDtoToSchuhUpdate: the REST patch carries version 0
schuhDtoToSchuhUpdate(schuhDTO) ==
    [version |-> [kind |-> "set", n |-> 0],
     artikelnummer |-> schuhDTO.artikelnummer,
     bewertung |-> schuhDTO.bewertung,
     abbildungen |-> 0]

\* SchuhMutationResolver.#schuhUpdateDtoToSchuhUpdate: no version in the patch
schuhUpdateDtoToSchuhUpdate(schuhDTO) ==
    [version |-> NoVersion,
     artikelnummer |-> schuhDTO.artikelnummer,
     bewertung |-> schuhDTO.bewertung,
     abbildungen |-> 0]

\* update() without the assignment to schuh.version
WithIncrementForgotten(patch) == patch

\* update(): schuh.version = { increment: 1 }
WithIncrement(patch) == [patch EXCEPT !.version = [kind |-> "increment", n |-> 1]]

Req(op, pc, id, data, tag, t, v) ==
    [op |-> op, pc |-> pc, id |-> id, schuh |-> data, tag |-> tag, t |-> t,
     v |-> v]

NoReq == Req("none", "none", NoId, NoSchuh, <<>>, NaN, NaN)

\* the value of a row field when there is no row
NoRow == [version |-> NaN, artikelnummer |-> Undefined, bewertung |-> 0]

\* what is recorded of a completed request: the request, how it ended, the
\* value it returned, what became of its mail and, for an update, the row it
\* found in the table (before is NoRow when it found none)
Outcome(req, result, ret, mail, before) ==
    [req |-> req, result |-> result, ret |-> ret, mail |-> mail,
     before |-> before]

-----------------------------------------------------------------------------
(* The store: Prisma on PostgreSQL *)

\* prisma.schuh.count({ where: { artikelnummer } })
CountArtikelnummer(a) == Cardinality({i \in DOMAIN schuh : schuh[i].artikelnummer = a})

\* table schuh without UNIQUE on artikelnummer
UniqueViolationNever(id, a) == FALSE

\* UNIQUE (artikelnummer): would a row of id with this value collide?
UniqueViolation(id, a) ==
    \E i \in DOMAIN schuh : i # id /\ schuh[i].artikelnummer = a

\* an update that leaves the article number of the row alone
UpdatedRowKeepsArtikelnummer(row, data) ==
    [version |->
        CASE data.version.kind = "increment" -> row.version + data.version.n
          [] data.version.kind = "set" -> data.version.n
          [] OTHER -> row.version,
     artikelnummer |-> row.artikelnummer,
     bewertung |-> data.bewertung]

\* an update that takes the new version from the tag of the request; the
\* tag is not part of data, so the row keeps its version
UpdatedRowNoIncrement(row, data) ==
    [version |-> row.version,
     artikelnummer |->
        IF data.artikelnummer = Undefined THEN row.artikelnummer
        ELSE data.artikelnummer,
     bewertung |-> data.bewertung]

\* tx.schuh.update({ data, where }) applied to one row: a field that is
\* undefined in data is left as it is, increment adds to the stored value
UpdatedRow(row, data) ==
    [version |->
        CASE data.version.kind = "increment" -> row.version + data.version.n
          [] data.version.kind = "set" -> data.version.n
          [] OTHER -> row.version,
     artikelnummer |->
        IF data.artikelnummer = Undefined THEN row.artikelnummer
        ELSE data.artikelnummer,
     bewertung |-> data.bewertung]

\* tx.schuh.create({ data }): version from data, DEFAULT 0 when absent
CreatedRow(data) ==
    [version |-> IF data.version.kind = "set" THEN data.version.n ELSE 0,
     artikelnummer |-> data.artikelnummer,
     bewertung |-> data.bewertung]

\* f with the argument x mapped to y, x added to the domain when missing
With(f, x, y) == [i \in DOMAIN f \cup {x} |-> IF i = x THEN y ELSE f[i]]

\* f without the argument x
Without(f, x) == [i \in DOMAIN f \ {x} |-> f[i]]

-----------------------------------------------------------------------------
(* Initial state: an empty database, no request *)

NoRows == [i \in {} |-> 0]

Init ==
    /\ schuh = NoRows
    /\ modell = {}
    /\ abbildung = NoRows
    /\ schuhFile = NoRows
    /\ nextId = StartId
    /\ inflight = EmptyBag
    /\ last = Outcome(NoReq, "none", NaN, "none", NoRow)
    /\ mailbox = {}
    /\ updates = NoRows
    /\ deleted = {}
    /\ ops = 0

\* a new request may start
CanStart == ops < MaxOps

Suspend(r) == inflight' = inflight (+) SetToBag({r})

Resume(r) == inflight' = inflight (-) SetToBag({r})

Pending(op, pc) == {r \in BagToSet(inflight) : r.op = op /\ r.pc = pc}

Done(req, result, ret, mail) == last' = Outcome(req, result, ret, mail, NoRow)

DoneUpdate(req, result, ret, before) ==
    last' = Outcome(req, result, ret, "none", before)

-----------------------------------------------------------------------------
(* SchuhWriteService.create *)

\* the requests suspended inside create()
Creating == {r \in BagToSet(inflight) : r.op = "create"}

\* #validateCreate with anzahl > 1
IsbnExistsTwice(artikelnummer) == CountArtikelnummer(artikelnummer) > 1

\* #validateCreate: anzahl > 0 for the rows that hold the article number
IsbnExists(artikelnummer) == CountArtikelnummer(artikelnummer) > 0

\* create() up to the transaction: #validateCreate passes data without an
\* article number and throws IsbnExistsException when a row holds it
CreateBegin(data) ==
    LET req == Req("create", "insert", NoId, data, <<>>, NaN, NaN)
        rejected == [req EXCEPT !.schuh = [NoSchuh EXCEPT !.artikelnummer = data.artikelnummer]]
    IN
    /\ CanStart
    /\ ops' = ops + 1
    /\ UNCHANGED <<store, history>>
    /\ IF data.artikelnummer # Undefined /\ IsbnExists(data.artikelnummer)
       THEN /\ Done(rejected, "IsbnExists", NaN, "none")
            /\ UNCHANGED inflight
       ELSE /\ BagCardinality(inflight) < MaxInFlight
            /\ Suspend(req)
            /\ UNCHANGED last

\* POST /rest and the GraphQL mutation create
Create ==
    \E schuhDTO \in CreateDTOs : CreateBegin(schuhDtoToSchuhCreateInput(schuhDTO))

\* the transaction of create(): tx.schuh.create with the nested rows.  The
\* client rejects data without artikelnummer; the table rejects a second row
\* with the same artikelnummer, after the identity sequence has advanced.
CreateInsert ==
    \E r \in Pending("create", "insert") :
        /\ UNCHANGED <<schuhFile, mailbox, deleted, ops>>
        /\ IF r.schuh.artikelnummer = Undefined
           THEN /\ Resume(r)
                /\ Done(r, "ValidationError", NaN, "none")
                /\ UNCHANGED <<schuh, modell, abbildung, nextId, updates>>
           ELSE /\ nextId < StartId + MaxProducts
                /\ nextId' = nextId + 1
                /\ IF UniqueViolation(nextId, r.schuh.artikelnummer)
                   THEN /\ Resume(r)
                        /\ Done(r, "UniqueViolation", NaN, "none")
                        /\ UNCHANGED <<schuh, modell, abbildung, updates>>
                   ELSE /\ schuh' = With(schuh, nextId, CreatedRow(r.schuh))
                        /\ modell' = modell \cup {nextId}
                        /\ abbildung' = With(abbildung, nextId, r.schuh.abbildungen)
                        /\ updates' = With(updates, nextId, 0)
                        /\ inflight' = (inflight (-) SetToBag({r})) (+)
                               SetToBag({[r EXCEPT !.pc = "mail", !.id = nextId]})
                        /\ UNCHANGED last

\* MailService.sendmail: delivery succeeds or fails; a failure is logged by
\* the mail service and not passed on
SendmailOutcomes == {"delivered", "failed"}

\* create() that passes a failure of the mail on and undoes the insert
CreateSendmailStrict ==
    \E r \in Pending("create", "mail") :
        \E mail \in SendmailOutcomes :
            /\ Resume(r)
            /\ mailbox' = mailbox \cup {r.id}
            /\ UNCHANGED <<nextId, updates, deleted, ops>>
            /\ IF mail = "failed"
               THEN /\ Done(r, "MailError", NaN, mail)
                    /\ schuh' = Without(schuh, r.id)
                    /\ modell' = modell \ {r.id}
                    /\ abbildung' = Without(abbildung, r.id)
                    /\ schuhFile' = Without(schuhFile, r.id)
               ELSE /\ Done(r, "ok", r.id, mail)
                    /\ UNCHANGED <<schuh, modell, abbildung, schuhFile>>

\* create() after the transaction: #sendmail, then return the new id
CreateSendmail ==
    \E r \in Pending("create", "mail") :
        \E mail \in SendmailOutcomes :
            /\ Resume(r)
            /\ mailbox' = mailbox \cup {r.id}
            /\ Done(r, "ok", r.id, mail)
            /\ UNCHANGED <<store, updates, deleted, ops>>

-----------------------------------------------------------------------------
(* SchuhService.findById *)

\* findById({ id }) as a function of the table: the row, or NotFoundException
FindByIdFails(id) == id \notin DOMAIN schuh

FindById ==
    \E id \in Ids :
        LET req == Req("findById", "done", id, NoSchuh, <<>>, NaN, NaN) IN
        /\ CanStart
        /\ ops' = ops + 1
        /\ IF FindByIdFails(id)
           THEN Done(req, "NotFound", NaN, "none")
           ELSE Done(req, "ok", schuh[id].version, "none")
        /\ UNCHANGED <<store, history, inflight>>

-----------------------------------------------------------------------------
(* SchuhWriteService.update *)

\* #validateUpdate comparing with the version before the stored one
VersionOutdatedOffByOne(t, versionDb) == t < versionDb - 1

\* #validateUpdate: is the version of the tag older than the stored one?
VersionOutdated(t, versionDb) == t < versionDb

\* update() up to the transaction: the check of the id, #validateUpdate with
\* the pattern, parseInt of the tag without its first and last character,
\* findById and the comparison, then schuh.version = { increment: 1 }
UpdateBegin(id, patch, version) ==
    LET t == parseInt(Slice1(version))
        req == Req("update", "apply", id, NoSchuh, version, NaN, NaN)
    IN
    /\ CanStart
    /\ ops' = ops + 1
    /\ UNCHANGED <<store, history>>
    /\ IF id = NoId
       THEN Done(req, "NotFound", NaN, "none") /\ UNCHANGED inflight
       ELSE IF ~VERSION_PATTERN(version)
       THEN Done(req, "VersionInvalid", NaN, "none") /\ UNCHANGED inflight
       ELSE IF FindByIdFails(id)
       THEN Done([req EXCEPT !.t = t], "NotFound", NaN, "none") /\ UNCHANGED inflight
       ELSE IF VersionOutdated(t, schuh[id].version)
       THEN /\ DoneUpdate([req EXCEPT !.t = t, !.v = schuh[id].version],
                         "VersionOutdated", NaN, schuh[id])
            /\ UNCHANGED inflight
       ELSE /\ BagCardinality(inflight) < MaxInFlight
            /\ Suspend([req EXCEPT !.t = t, !.v = schuh[id].version,
                                   !.schuh = WithIncrement(patch)])
            /\ UNCHANGED last

NoHeader == <<Undefined>>

\* a handler that hands the missing header on to update()
PutWithoutCheck ==
    \E id \in Ids, schuhDTO \in UpdateDTOs, version \in Tags \cup {NoHeader} :
        UpdateBegin(id, schuhDtoToSchuhUpdate(schuhDTO), version)

\* PUT /rest/:id with the header If-Match, or without it
Put ==
    \E id \in Ids, schuhDTO \in UpdateDTOs, version \in Tags \cup {NoHeader} :
        IF version = NoHeader
        THEN /\ CanStart
             /\ ops' = ops + 1
             /\ Done(Req("put", "done", id, NoSchuh, version, NaN, NaN),
                     "PreconditionRequired", NaN, "none")
             /\ UNCHANGED <<store, history, inflight>>
        ELSE UpdateBegin(id, schuhDtoToSchuhUpdate(schuhDTO), version)

\* the values of SchuhUpdateDTO.version (an integer >= 0) that the model sends
GraphQLVersionen == (0..MaxTagNum) \cup {1000}

\* the GraphQL mutation update: the tag is built from the number in the input
MutationUpdate ==
    \E id \in Ids, schuhDTO \in UpdateDTOs, version \in GraphQLVersionen :
        UpdateBegin(id, schuhUpdateDtoToSchuhUpdate(schuhDTO), Quoted(version))

\* update() called without an id
UpdateOhneId ==
    \E schuhDTO \in UpdateDTOs, version \in Tags :
        UpdateBegin(NoId, schuhDtoToSchuhUpdate(schuhDTO), version)

\* a transaction that compares the stored version with the loaded one again
UpdateApplyCompareAndSet ==
    \E r \in Pending("update", "apply") :
        /\ Resume(r)
        /\ UNCHANGED <<modell, abbildung, schuhFile, nextId, mailbox, deleted, ops>>
        /\ IF r.id \notin DOMAIN schuh
           THEN /\ Done(r, "RecordNotFound", NaN, "none")
                /\ UNCHANGED <<schuh, updates>>
           ELSE LET row == UpdatedRow(schuh[r.id], r.schuh) IN
                IF schuh[r.id].version # r.v
                THEN /\ DoneUpdate(r, "VersionOutdated", NaN, schuh[r.id])
                     /\ UNCHANGED <<schuh, updates>>
                ELSE IF UniqueViolation(r.id, row.artikelnummer)
                THEN /\ DoneUpdate(r, "UniqueViolation", NaN, schuh[r.id])
                     /\ UNCHANGED <<schuh, updates>>
                ELSE /\ schuh' = [schuh EXCEPT ![r.id] = row]
                     /\ updates' = [updates EXCEPT ![r.id] = @ + 1]
                     /\ DoneUpdate(r, "ok", row.version, schuh[r.id])

\* a transaction that writes the row again when it is gone (upsert)
UpdateApplyUpsert ==
    \E r \in Pending("update", "apply") :
        /\ Resume(r)
        /\ UNCHANGED <<abbildung, schuhFile, nextId, mailbox, deleted, ops>>
        /\ LET old == IF r.id \in DOMAIN schuh THEN schuh[r.id]
                      ELSE [version |-> r.v, artikelnummer |-> r.schuh.artikelnummer,
                            bewertung |-> r.schuh.bewertung]
               row == UpdatedRow(old, r.schuh)
           IN
           IF UniqueViolation(r.id, row.artikelnummer)
           THEN /\ DoneUpdate(r, "UniqueViolation", NaN, old)
                /\ UNCHANGED <<schuh, modell, updates>>
           ELSE /\ schuh' = With(schuh, r.id, row)
                /\ modell' = modell \cup {r.id}
                /\ updates' = [updates EXCEPT ![r.id] = @ + 1]
                /\ DoneUpdate(r, "ok", row.version, old)

\* the transaction of update(): tx.schuh.update({ data, where: { id } }).
\* It fails when the row is gone and when the new artikelnummer is held by
\* another row; otherwise it returns the updated row, whose version update()
\* returns.
UpdateApply ==
    \E r \in Pending("update", "apply") :
        /\ Resume(r)
        /\ UNCHANGED <<modell, abbildung, schuhFile, nextId, mailbox, deleted, ops>>
        /\ IF r.id \notin DOMAIN schuh
           THEN /\ Done(r, "RecordNotFound", NaN, "none")
                /\ UNCHANGED <<schuh, updates>>
           ELSE LET row == UpdatedRow(schuh[r.id], r.schuh) IN
                IF UniqueViolation(r.id, row.artikelnummer)
                THEN /\ DoneUpdate(r, "UniqueViolation", NaN, schuh[r.id])
                     /\ UNCHANGED <<schuh, updates>>
                ELSE /\ schuh' = [schuh EXCEPT ![r.id] = row]
                     /\ updates' = [updates EXCEPT ![r.id] = @ + 1]
                     /\ DoneUpdate(r, "ok", row.version, schuh[r.id])

-----------------------------------------------------------------------------
(* SchuhWriteService.delete and addFile *)

\* delete(): tx.schuh.delete({ where: { id } }); the rows of modell,
\* abbildung and schuh_file go with it (ON DELETE CASCADE); the store reports
\* a missing row as an error
Delete ==
    \E id \in Ids :
        LET req == Req("delete", "done", id, NoSchuh, <<>>, NaN, NaN) IN
        /\ CanStart
        /\ ops' = ops + 1
        /\ UNCHANGED <<nextId, inflight, mailbox, updates>>
        /\ IF id \in DOMAIN schuh
           THEN /\ schuh' = Without(schuh, id)
                /\ modell' = modell \ {id}
                /\ abbildung' = Without(abbildung, id)
                /\ schuhFile' = Without(schuhFile, id)
                /\ deleted' = deleted \cup {id}
                /\ Done(req, "ok", NaN, "none")
           ELSE /\ Done(req, "RecordNotFound", NaN, "none")
                /\ UNCHANGED <<schuh, modell, abbildung, schuhFile, deleted>>

\* the rows of schuh_file that belong to the shoe id
FilesOf(f, id) == IF id \in DOMAIN f THEN f[id] ELSE <<>>

\* addFile() without the deletion of the former file
deleteManyNothing(f, schuhId) == f

\* tx.schuhFile.deleteMany({ where: { schuhId } })
deleteMany(f, schuhId) == Without(f, schuhId)

\* schuh_id UNIQUE in schuh_file: does a row hold this schuh_id?
SchuhIdTaken(f, schuhId) == FilesOf(f, schuhId) # <<>>

\* tx.schuhFile.create({ data: schuhFile }): one more row for the shoe
SchuhFileCreated(f, schuhId, filename) ==
    With(f, schuhId, Append(FilesOf(f, schuhId), filename))

\* a transaction whose writes stay when its callback throws
transactionKeepsWrites(before, written) == written

\* this.#prisma.$transaction(async (tx) => ...) whose callback throws: the
\* writes made so far (written) are rolled back to the rows before
transactionFailed(before, written) == before

\* addFile(): one transaction.  tx.schuh.findUnique is not awaited, so the
\* value compared with null is a promise and the NotFoundException is never
\* thrown; deleteMany removes the file of the shoe; the insert is rejected
\* without a filename (filename text NOT NULL) and fails on the foreign key
\* when the shoe has no row, and the transaction is rolled back.
AddFile ==
    \E id \in Ids, filename \in Dateinamen \cup {Undefined} :
        LET req == Req("addFile", "done", id, NoSchuh, <<filename>>, NaN, NaN)
            remaining == deleteMany(schuhFile, id)
        IN
        /\ CanStart
        /\ ops' = ops + 1
        /\ UNCHANGED <<schuh, modell, abbildung, nextId, inflight, history>>
        /\ IF filename = Undefined
           THEN /\ Done(req, "ValidationError", NaN, "none")
                /\ schuhFile' = transactionFailed(schuhFile, remaining)
           ELSE IF id \notin DOMAIN schuh
           THEN /\ Done(req, "ForeignKeyViolation", NaN, "none")
                /\ schuhFile' = transactionFailed(schuhFile, remaining)
           ELSE IF SchuhIdTaken(remaining, id)
           THEN /\ Done(req, "UniqueViolation", NaN, "none")
                /\ schuhFile' = transactionFailed(schuhFile, remaining)
           ELSE /\ schuhFile' = SchuhFileCreated(remaining, id, filename)
                /\ Done(req, "ok", id, "none")

-----------------------------------------------------------------------------

Next ==
    \/ Create
    \/ CreateInsert
    \/ CreateSendmail
    \/ FindById
    \/ Put
    \/ MutationUpdate
    \/ UpdateOhneId
    \/ UpdateApply
    \/ Delete
    \/ AddFile

Spec == Init /\ [][Next]_vars

-----------------------------------------------------------------------------
(* Properties *)

\* C1: in every reachable state the version of every product equals the
\* number of update() calls that have succeeded for it since its creation
\* (0 after create(), one more per successful update, whatever version the
\* patch carries; nothing else changes it).
VersionCountsUpdates ==
    /\ DOMAIN updates = DOMAIN schuh \cup deleted
    /\ \A id \in DOMAIN schuh : schuh[id].version = updates[id]

\* a product that two successful updates have brought to version 2
VersionCountsUpdatesWitness ==
    /\ last.req.op = "update"
    /\ last.result = "ok"
    /\ last.req.id \in DOMAIN schuh
    /\ schuh[last.req.id].version = 2
    /\ updates[last.req.id] = 2

\* C7: in every reachable state no two products have the same article
\* number, whatever requests are interleaved.
ArtikelnummerUnique ==
    \A i, j \in DOMAIN schuh :
        schuh[i].artikelnummer = schuh[j].artikelnummer => i = j

\* two create() calls with the same article number passed the count, one
\* committed and the insert of the other was rejected by the table
ArtikelnummerUniqueWitness ==
    /\ last.req.op = "create"
    /\ last.result = "UniqueViolation"
    /\ CountArtikelnummer(last.req.schuh.artikelnummer) = 1

\* the step starts a request that ends without a pending store call
Completes == ops' # ops /\ inflight' = inflight

\* the last request was an update() that loaded the row of an existing
\* product with a tag that passed the pattern, and no other request wrote
\* the row between its load and its end
UpdateCompared ==
    /\ last.req.op = "update"
    /\ last.req.v # NaN
    /\ last.before.version = last.req.v

\* C2 as claimed: such an update() succeeds exactly when t >= v, the stored
\* version is then v + 1 and v + 1 is returned.
UpdateSucceedsIffNotOlder ==
    UpdateCompared =>
        /\ (last.result = "ok") <=> (last.req.t >= last.req.v)
        /\ last.result = "ok" =>
              /\ last.ret = last.req.v + 1
              /\ schuh[last.req.id].version = last.req.v + 1

\* C2 amended: such an update() passes the version check exactly when
\* t >= v (else it fails with VersionOutdated); having passed, it succeeds
\* unless another product holds the article number of the patch, which the
\* table rejects; on success the stored version is v + 1 and v + 1 (not
\* t + 1) is returned.
UpdateSucceedsIffNotOlderAndUnique ==
    UpdateCompared =>
        /\ (last.result = "VersionOutdated") <=> (last.req.t < last.req.v)
        /\ last.result \in {"ok", "UniqueViolation", "VersionOutdated"}
        /\ (last.result = "UniqueViolation") <=>
              /\ last.req.t >= last.req.v
              /\ \E i \in DOMAIN schuh :
                    /\ i # last.req.id
                    /\ schuh[i].artikelnummer = last.req.schuh.artikelnummer
        /\ last.result = "ok" =>
              /\ last.ret = last.req.v + 1
              /\ schuh[last.req.id].version = last.req.v + 1

\* an update() with a tag from the future (t > v) has succeeded and returned
\* v + 1
UpdateSucceedsIffNotOlderWitness ==
    /\ UpdateCompared
    /\ last.result = "ok"
    /\ last.req.t > last.req.v
    /\ last.ret = last.req.v + 1
    /\ last.ret # last.req.t + 1

\* C3: update() of an existing product with a tag whose number is less than
\* the stored version fails with VersionOutdated, and the step leaves every
\* table as it was.
OlderVersionRejected ==
    /\ [](UpdateCompared /\ last.req.t < last.req.v =>
            /\ last.result = "VersionOutdated"
            /\ last.req.id \in DOMAIN schuh
            /\ schuh[last.req.id] = last.before)
    /\ [][Completes /\ last'.result = "VersionOutdated" =>
            UNCHANGED <<store, history>>]_vars

\* an update() with tag t < v has ended with VersionOutdated
OlderVersionRejectedWitness ==
    /\ last.req.op = "update"
    /\ last.result = "VersionOutdated"
    /\ last.req.id \in DOMAIN schuh
    /\ last.req.t < schuh[last.req.id].version

\* the exact form of a version tag: a double quote, one to three digits, a
\* double quote, and nothing else
ExactVersionForm(s) ==
    /\ Len(s) \in 3..5
    /\ s[1] = Q
    /\ s[Len(s)] = Q
    /\ \A i \in 2..(Len(s) - 1) : IsDigit(s[i])

\* C4 as claimed: update() with an id and a tag that is not of the exact
\* form fails with VersionInvalid.
InexactTagInvalid ==
    (last.req.op = "update" /\ last.req.id # NoId
        /\ ~ExactVersionForm(last.req.tag)) => last.result = "VersionInvalid"

\* the step is the transaction of the suspended update r
AppliesUpdate(r) ==
    /\ r \in Pending("update", "apply")
    /\ inflight' = inflight (-) SetToBag({r})
    /\ last'.req = r
    /\ ops' = ops

\* C5: the transaction of update() does not look at the version again.  An
\* update that carried the tag of the version v it loaded commits also when
\* another update of the product has committed since (stored version v + 1):
\* it does not fail with VersionOutdated, the version becomes v + 2 and the
\* fields are its own, unless the table rejects its article number.
LostUpdate ==
    [][\A r \in BagToSet(inflight) :
          (/\ AppliesUpdate(r)
           /\ r.t = r.v
           /\ r.id \in DOMAIN schuh
           /\ schuh[r.id].version = r.v + 1
           /\ last'.result # "UniqueViolation")
          => /\ last'.result = "ok"
             /\ last'.ret = r.v + 2
             /\ schuh'[r.id].version = r.v + 2
             /\ schuh'[r.id].bewertung = r.schuh.bewertung]_vars

\* an update that carried the tag of the version v it loaded has committed
\* after another update of the product, which committed between its load
\* and its transaction: neither failed, the version is v + 2 and the rating
\* is the one of the update that committed last
LostUpdateWitness ==
    /\ last.req.op = "update"
    /\ last.result = "ok"
    /\ last.req.t = last.req.v
    /\ last.before.version = last.req.v + 1
    /\ last.before.bewertung # last.req.schuh.bewertung
    /\ last.req.id \in DOMAIN schuh
    /\ schuh[last.req.id].version = last.req.v + 2
    /\ schuh[last.req.id].bewertung = last.req.schuh.bewertung
    /\ updates[last.req.id] = 2

\* C6: create() with an article number that a product in the store holds
\* fails with IsbnExists at the count: the request does not reach the
\* transaction, no id is drawn, no mail is sent and no table changes.
ExistingArtikelnummerRejected ==
    [][\A schuhDTO \in CreateDTOs :
          (/\ schuhDTO.artikelnummer # Undefined
           /\ CountArtikelnummer(schuhDTO.artikelnummer) > 0
           /\ CreateBegin(schuhDtoToSchuhCreateInput(schuhDTO)))
          => /\ last'.req.op = "create"
             /\ last'.result = "IsbnExists"
             /\ last'.req.schuh.artikelnummer = schuhDTO.artikelnummer
             /\ UNCHANGED <<store, history, inflight>>]_vars

\* a create() has failed with IsbnExists for an article number in the store
ExistingArtikelnummerRejectedWitness ==
    /\ last.req.op = "create"
    /\ last.result = "IsbnExists"
    /\ CountArtikelnummer(last.req.schuh.artikelnummer) = 1
    /\ Creating = {}

\* C8 as claimed: no successful update() changes the article number of the
\* product it updates.
ArtikelnummerImmutable ==
    (last.req.op = "update" /\ last.result = "ok"
        /\ last.req.id \in DOMAIN schuh)
    => schuh[last.req.id].artikelnummer = last.before.artikelnummer

\* C8 amended: a successful update(), through PUT or the mutation, sets the
\* article number of the product to the one of its patch and leaves it as
\* it is when the patch has none; no other step changes the article number
\* of a product.
ArtikelnummerFollowsPatch ==
    [][\A id \in DOMAIN schuh \cap DOMAIN schuh' :
          LET patched == last'.req.schuh.artikelnummer
              applied == /\ \E r \in BagToSet(inflight) : AppliesUpdate(r)
                         /\ last'.result = "ok"
                         /\ last'.req.id = id
          IN
          /\ applied =>
                schuh'[id].artikelnummer =
                    IF patched = Undefined THEN schuh[id].artikelnummer
                    ELSE patched
          /\ ~applied => schuh'[id].artikelnummer = schuh[id].artikelnummer]_vars

\* a successful update() has changed the article number of its product
ArtikelnummerFollowsPatchWitness ==
    /\ last.req.op = "update"
    /\ last.result = "ok"
    /\ last.req.id \in DOMAIN schuh
    /\ last.req.schuh.artikelnummer # Undefined
    /\ last.before.artikelnummer # last.req.schuh.artikelnummer
    /\ schuh[last.req.id].artikelnummer = last.req.schuh.artikelnummer

DeletedStaysNotFound ==
    /\ [](\A id \in deleted : FindByIdFails(id) /\ id < nextId)
    /\ [](last.req.op = "findById" /\ last.req.id \in deleted =>
            last.result = "NotFound")
    /\ [][(Completes /\ last'.req.op = "findById"
            /\ last'.req.id \notin DOMAIN schuh) =>
            last'.result = "NotFound"]_vars

\* findById has failed with NotFound for an id that was deleted before
DeletedStaysNotFoundWitness ==
    /\ last.req.op = "findById"
    /\ last.req.id \in deleted
    /\ last.result = "NotFound"

\* the step is a complete addFile() call
AddsFile == Completes /\ last'.req.op = "addFile"

\* C11: every product has at most one row in schuh_file, and addFile() of
\* a named file for an existing product succeeds and leaves exactly one row
\* for it, the one just added (a second call replaces the row of the first).
OneFilePerSchuh ==
    /\ [](\A id \in DOMAIN schuhFile :
            id \in DOMAIN schuh /\ Len(schuhFile[id]) = 1)
    /\ [][(/\ AddsFile
            /\ last'.req.id \in DOMAIN schuh
            /\ last'.req.tag # <<Undefined>>) =>
            /\ last'.result = "ok"
            /\ FilesOf(schuhFile', last'.req.id) = last'.req.tag
            /\ \A id \in Ids \ {last'.req.id} :
                  FilesOf(schuhFile', id) = FilesOf(schuhFile, id)]_vars

\* a second addFile() for the same product has replaced the file of the
\* first by its own
OneFilePerSchuhWitness ==
    /\ ops = 3
    /\ last.req.op = "addFile"
    /\ last.result = "ok"
    /\ schuhFile[last.req.id] = <<"b.png">>

\* C12 as claimed: addFile() for an id without a product fails with NotFound
\* and leaves the store as it was.
AddFileWithoutSchuhNotFound ==
    [][(AddsFile /\ last'.req.id \notin DOMAIN schuh) =>
        /\ last'.result = "NotFound"
        /\ UNCHANGED store]_vars

-----------------------------------------------------------------------------
(* The Pagination Helper: createPageable *)

DEFAULT_PAGE_SIZE == 5
MAX_PAGE_SIZE == 100
DEFAULT_PAGE_NUMBER == 0

\* largest absolute value of the small integers sent as page and size
MaxPageInput == 2

\* a query parameter or property that is not there
Absent == <<Undefined>>

\* Number.prototype.toString for an integer
IntToString(n) == IF n < 0 THEN <<"-">> \o NumberToString(-n) ELSE NumberToString(n)

\* the longest prefix of digits of a text
RECURSIVE DigitPrefix(_)
DigitPrefix(s) ==
    IF s = <<>> \/ ~IsDigit(Head(s)) THEN <<>>
    ELSE <<Head(s)>> \o DigitPrefix(Tail(s))

\* a text of digits without the zeros at its end
RECURSIVE StripZeros(_)
StripZeros(s) ==
    IF s # <<>> /\ s[Len(s)] = "0" THEN StripZeros(SubSeq(s, 1, Len(s) - 1))
    ELSE s

NotANumber == [kind |-> "NaN", whole |-> 0, fraction |-> <<>>]

\* Number(value) for undefined and for a text without white space: the
\* empty text is 0; a decimal literal with an optional sign and an optional
\* fraction is its value (whole part and the digits of the fraction);
\* undefined and every other text are NaN
Number(value) ==
    IF value = Absent THEN NotANumber
    ELSE IF value = <<>> THEN [kind |-> "number", whole |-> 0, fraction |-> <<>>]
    ELSE
        LET negative == Head(value) = "-"
            unsigned == IF negative \/ Head(value) = "+" THEN Tail(value) ELSE value
            whole == DigitPrefix(unsigned)
            rest == SubSeq(unsigned, Len(whole) + 1, Len(unsigned))
            digits == IF rest # <<>> /\ Head(rest) = "." THEN DigitPrefix(Tail(rest)) ELSE <<>>
            wellFormed ==
                /\ whole # <<>> \/ digits # <<>>
                /\ \/ rest = <<>>
                   \/ Head(rest) = "." /\ Len(rest) = Len(digits) + 1
            magnitude == ParseDigits(whole, 0)
        IN
        IF ~wellFormed THEN NotANumber
        ELSE [kind |-> "number",
              whole |-> IF negative THEN -magnitude ELSE magnitude,
              fraction |-> StripZeros(digits)]

isNaN(x) == x.kind = "NaN"

\* Number.isInteger
isInteger(x) == x.kind = "number" /\ x.fraction = <<>>

\* the page number without the reset of a negative value
PageNumberUnclamped(number) ==
    LET numberFloat == Number(number) IN
    IF isNaN(numberFloat) \/ ~isInteger(numberFloat) THEN DEFAULT_PAGE_NUMBER
    ELSE numberFloat.whole - 1

\* createPageable(), the page number: NaN and fractions give the default,
\* an integer is counted from 0 and is the default when that is negative
PageNumber(number) ==
    LET numberFloat == Number(number) IN
    IF isNaN(numberFloat) \/ ~isInteger(numberFloat) THEN DEFAULT_PAGE_NUMBER
    ELSE IF numberFloat.whole - 1 < 0 THEN DEFAULT_PAGE_NUMBER
    ELSE numberFloat.whole - 1

\* the page size with the default size for an integer out of range
PageSizeDefaulted(size) ==
    LET sizeFloat == Number(size) IN
    IF isNaN(sizeFloat) \/ ~isInteger(sizeFloat) THEN DEFAULT_PAGE_SIZE
    ELSE IF sizeFloat.whole < 1 \/ sizeFloat.whole > MAX_PAGE_SIZE
         THEN DEFAULT_PAGE_SIZE
    ELSE sizeFloat.whole

\* createPageable(), the page size: NaN and fractions give the default size,
\* an integer outside 1..MAX_PAGE_SIZE is replaced by DEFAULT_PAGE_NUMBER
PageSize(size) ==
    LET sizeFloat == Number(size) IN
    IF isNaN(sizeFloat) \/ ~isInteger(sizeFloat) THEN DEFAULT_PAGE_SIZE
    ELSE IF sizeFloat.whole < 1 \/ sizeFloat.whole > MAX_PAGE_SIZE
         THEN DEFAULT_PAGE_NUMBER
    ELSE sizeFloat.whole

\* a createPageable that gives the default size for an integer out of range
createPageableDefaultSize(number, size) ==
    [number |-> PageNumber(number), size |-> PageSizeDefaulted(size)]

createPageable(number, size) ==
    [number |-> PageNumber(number), size |-> PageSize(size)]

\* the integers sent as page and size: small ones around 0, the default
\* size and the ones around the largest size
PageIntegers ==
    (-MaxPageInput .. MaxPageInput)
        \cup {DEFAULT_PAGE_SIZE, MAX_PAGE_SIZE - 1, MAX_PAGE_SIZE, MAX_PAGE_SIZE + 1}

\* texts that are no number
NonNumericTexts == { <<"a", "b", "c">>, <<"5", "x">>, <<"-">> }    \* abc 5x -

\* texts of numbers with a fraction
NonIntegerTexts == { <<"1", ".", "5">>, <<"-", "0", ".", "5">> }   \* 1.5 -0.5

\* the values of the parameters page and size
PageInputs ==
    {Absent, <<>>} \cup {IntToString(n) : n \in PageIntegers}
        \cup NonNumericTexts \cup NonIntegerTexts

PageableCall(number, size) ==
    [op |-> "createPageable", number |-> number, size |-> size,
     pageable |-> createPageable(number, size)]

NoPageableCall ==
    [op |-> "none", number |-> Absent, size |-> Absent,
     pageable |-> [number |-> 0, size |-> 0]]

\* no database rows, no request
Quiet ==
    /\ schuh = NoRows
    /\ modell = {}
    /\ abbildung = NoRows
    /\ schuhFile = NoRows
    /\ nextId = StartId
    /\ inflight = EmptyBag
    /\ mailbox = {}
    /\ updates = NoRows
    /\ deleted = {}
    /\ ops = 0

PageableInit == Quiet /\ last = NoPageableCall

\* one call of createPageable with the parameters of a request
CreatePageable ==
    \E number \in PageInputs, size \in PageInputs :
        /\ ops = 0
        /\ ops' = 1
        /\ last' = PageableCall(number, size)
        /\ UNCHANGED <<store, inflight, history>>

PageableNext == CreatePageable

PageableSpec == PageableInit /\ [][PageableNext]_vars

\* C19: an integer size outside 1..100 gives the size 0 (not the default
\* 5), an integer inside gives itself, an absent, non-numeric or
\* non-integer size gives 5.  The empty text is the number 0 to Number().
PageSizeNormalized ==
    last.op = "createPageable" =>
        /\ \A n \in PageIntegers :
              last.size = IntToString(n) =>
                  last.pageable.size = IF n >= 1 /\ n <= 100 THEN n ELSE 0
        /\ last.size = <<>> => last.pageable.size = 0
        /\ last.size \in {Absent} \cup NonNumericTexts \cup NonIntegerTexts =>
              last.pageable.size = 5

\* the size 101 has given the size 0
PageSizeNormalizedWitness ==
    /\ last.op = "createPageable"
    /\ last.size = <<"1", "0", "1">>
    /\ last.pageable.size = 0

\* C20: the page number is never negative: an integer n >= 1 gives n - 1;
\* an integer n <= 0 and an absent, non-numeric or non-integer page give 0.
PageNumberNormalized ==
    last.op = "createPageable" =>
        /\ last.pageable.number >= 0
        /\ \A n \in PageIntegers :
              last.number = IntToString(n) =>
                  last.pageable.number = IF n >= 1 THEN n - 1 ELSE 0
        /\ last.number \in {Absent, <<>>} \cup NonNumericTexts \cup NonIntegerTexts =>
              last.pageable.number = 0

\* the page -1 has given the page number 0
PageNumberNormalizedWitness ==
    /\ last.op = "createPageable"
    /\ last.number = <<"-", "1">>
    /\ last.pageable.number = 0

-----------------------------------------------------------------------------
(* Texts of the search: letters, letter case, the values searched for *)

LowerCase == <<"a", "b", "c", "d", "e", "f", "g", "h", "i", "j", "k", "l", "m", "n", "o", "p", "q", "r", "s", "t", "u", "v", "w", "x", "y", "z">>
UpperCase == <<"A", "B", "C", "D", "E", "F", "G", "H", "I", "J", "K", "L", "M", "N", "O", "P", "Q", "R", "S", "T", "U", "V", "W", "X", "Y", "Z">>

\* String.prototype.toLowerCase
toLowerCase(s) ==
    [i \in 1..Len(s) |->
        IF \E k \in 1..26 : UpperCase[k] = s[i]
        THEN LowerCase[CHOOSE k \in 1..26 : UpperCase[k] = s[i]]
        ELSE s[i]]

\* String.prototype.toUpperCase
toUpperCase(s) ==
    [i \in 1..Len(s) |->
        IF \E k \in 1..26 : LowerCase[k] = s[i]
        THEN UpperCase[CHOOSE k \in 1..26 : LowerCase[k] = s[i]]
        ELSE s[i]]

\* the members of the enum schuhtyp
Sneaker == <<"S", "n", "e", "a", "k", "e", "r">>
Laufschuh == <<"L", "a", "u", "f", "s", "c", "h", "u", "h">>
Freizeitschuh == <<"F", "r", "e", "i", "z", "e", "i", "t", "s", "c", "h", "u", "h">>
Skateschuh == <<"S", "k", "a", "t", "e", "s", "c", "h", "u", "h">>
Tennisschuh == <<"T", "e", "n", "n", "i", "s", "s", "c", "h", "u", "h">>
Schuhtyp == {Sneaker, Laufschuh, Freizeitschuh, Skateschuh, Tennisschuh}

\* a text that is no member in any letter case
Stiefel == <<"S", "t", "i", "e", "f", "e", "l">>

\* the values of the tag flags
TextTrue == <<"t", "r", "u", "e">>
TextFalse == <<"f", "a", "l", "s", "e">>

\* the tags
TagSport == <<"s", "p", "o", "r", "t">>
TagVintage == <<"v", "i", "n", "t", "a", "g", "e">>
TagStreetwear == <<"s", "t", "r", "e", "e", "t", "w", "e", "a", "r">>
TagStreetware == <<"s", "t", "r", "e", "e", "t", "w", "a", "r", "e">>

\* a value of a column that is NULL, and a value v that is there
Null == <<>>
Some(v) == <<v>>

\* the values of the column schlagwoerter (jsonb): NULL, the empty array,
\* arrays of tags in upper and in lower case
TagArrays ==
    { Null, Some({}),
      Some({toUpperCase(TagSport)}), Some({TagSport}),
      Some({toUpperCase(TagVintage)}), Some({TagStreetwear}),
      Some({toUpperCase(TagSport), toUpperCase(TagVintage)}) }

\* rows of schuh as the search sees them
Rows == [typ : {Laufschuh, Sneaker}, bewertung : Bewertungen, schlagwoerter : TagArrays]

-----------------------------------------------------------------------------
(* WhereBuilder: the repository holds two implementations of the class *)

\* search parameters are a mapping from names to texts
ValueOf(suchparameter, key) ==
    IF key \in DOMAIN suchparameter THEN suchparameter[key] ELSE Absent

\* value?.toLowerCase() === 'true'
IsTrue(value) == value # Absent /\ toLowerCase(value) = TextTrue

\* a WHERE clause: an optional condition per column and an optional OR of
\* array_contains conditions, one per tag of the set
NoWhere == [typ |-> Null, bewertung |-> Null, schlagwoerter |-> Null, OR |-> Null]

\* build(), the cases 'bewertung' and 'typ' of the first implementation:
\* rating at least the parsed number, typ equal to the value as it is
WhereFieldsCopy1(suchparameter) ==
    LET bewertung == ValueOf(suchparameter, "bewertung")
        typ == ValueOf(suchparameter, "typ")
    IN
    [NoWhere EXCEPT
        !.bewertung =
            IF bewertung # Absent /\ parseInt(bewertung) # NaN
            THEN Some(parseInt(bewertung)) ELSE Null,
        !.typ = IF typ # Absent THEN Some(typ) ELSE Null]

\* #buildSchlagwoerter of the first implementation
buildSchlagwoerterCopy1(suchparameter) ==
    (IF IsTrue(ValueOf(suchparameter, "sport")) THEN {toUpperCase(TagSport)} ELSE {})
    \cup (IF IsTrue(ValueOf(suchparameter, "vintage")) THEN {toUpperCase(TagStreetware)} ELSE {})
    \cup (IF IsTrue(ValueOf(suchparameter, "streetware")) THEN {toUpperCase(TagVintage)} ELSE {})

\* build() of the first implementation: schlagwoerter.length >= 0 holds for
\* every array, so the array_contains condition is always there
buildCopy1(suchparameter) ==
    [WhereFieldsCopy1(suchparameter) EXCEPT
        !.schlagwoerter = Some(buildSchlagwoerterCopy1(suchparameter))]

\* #mapTyp: the member whose name is the value in lower case
mapTyp(value) ==
    LET normalized == toLowerCase(value) IN
    IF \E member \in Schuhtyp : toLowerCase(member) = normalized
    THEN Some(CHOOSE member \in Schuhtyp : toLowerCase(member) = normalized)
    ELSE Null

\* build(), the cases 'bewertung' and 'typ' of the second implementation
WhereFields(suchparameter) ==
    LET bewertung == ValueOf(suchparameter, "bewertung")
        typ == ValueOf(suchparameter, "typ")
    IN
    [NoWhere EXCEPT
        !.bewertung =
            IF bewertung # Absent /\ parseInt(bewertung) # NaN
            THEN Some(parseInt(bewertung)) ELSE Null,
        !.typ = IF typ # Absent THEN mapTyp(typ) ELSE Null]

\* #buildSchlagwoerter of the second implementation
buildSchlagwoerter(suchparameter) ==
    (IF IsTrue(ValueOf(suchparameter, "sport")) THEN {TagSport} ELSE {})
    \cup (IF IsTrue(ValueOf(suchparameter, "vintage")) THEN {TagVintage} ELSE {})
    \cup (IF IsTrue(ValueOf(suchparameter, "streetware")) THEN {TagStreetwear} ELSE {})

\* build() of the second implementation: with a tag requested, the other
\* conditions AND an OR over each tag as it is, in lower and in upper case
build(suchparameter) ==
    LET schlagwoerter == buildSchlagwoerter(suchparameter)
        tags == UNION {{tag, toLowerCase(tag), toUpperCase(tag)} : tag \in schlagwoerter}
    IN
    [WhereFields(suchparameter) EXCEPT
        !.OR = IF schlagwoerter # {} THEN Some(tags) ELSE Null]

\* the implementations of WhereBuilder
WhereBuilders == {"copy1", "copy2"}

WhereBuilt(builder, suchparameter) ==
    IF builder = "copy1" THEN buildCopy1(suchparameter) ELSE build(suchparameter)

\* jsonb @> for arrays of texts: a NULL column contains nothing
ArrayContains(stored, wanted) == stored # Null /\ wanted \subseteq stored[1]

\* the client rejects a typ that is no member of the enum
WhereValid(where) == where.typ = Null \/ where.typ[1] \in Schuhtyp

\* does the row satisfy the WHERE clause?
Matches(row, where) ==
    /\ where.typ = Null \/ row.typ = where.typ[1]
    /\ where.bewertung = Null \/ row.bewertung >= where.bewertung[1]
    /\ where.schlagwoerter = Null
          \/ ArrayContains(row.schlagwoerter, where.schlagwoerter[1])
    /\ where.OR = Null
          \/ \E tag \in where.OR[1] : ArrayContains(row.schlagwoerter, {tag})

-----------------------------------------------------------------------------
(* The search parameters sent *)

\* largest number of search parameters in one request
MaxKeys == 2

\* the names sent: names of the query class, the name of the list of valid
\* names that the query class does not have ("rating"), and an unknown name
Keys == {"typ", "bewertung", "rating", "sport", "vintage", "streetware", "foo"}

TagFlags == {"sport", "vintage", "streetware"}

\* the values sent with each name
KeyValues ==
    [key \in Keys |->
        CASE key = "typ" -> {Laufschuh, toUpperCase(Laufschuh), Stiefel}
          [] key = "bewertung" -> {<<"2">>, <<"x">>}
          [] key = "rating" -> {<<"2">>}
          [] key = "sport" -> {TextTrue, toUpperCase(TextTrue), TextFalse}
          [] key = "foo" -> {<<"b", "a", "r">>}
          [] OTHER -> {TextTrue, TextFalse}]

\* the mappings with at most MaxKeys names; the empty one is also what an
\* absent mapping is to find()
Suchparameters ==
    UNION { {sp \in [keys -> UNION {KeyValues[k] : k \in keys}] :
                \A k \in keys : sp[k] \in KeyValues[k]} :
            keys \in {ks \in SUBSET Keys : Cardinality(ks) <= MaxKeys} }

-----------------------------------------------------------------------------
(* The Predicate Builder called directly *)

BuildCall(builder, suchparameter) ==
    [op |-> "build", builder |-> builder, suchparameter |-> suchparameter,
     where |-> WhereBuilt(builder, suchparameter)]

NoBuildCall ==
    [op |-> "none", builder |-> "none", suchparameter |-> NoRows,
     where |-> NoWhere]

\* one shoe in the database, no request
BuildInit ==
    /\ schuh \in [{StartId} -> Rows]
    /\ modell = {}
    /\ abbildung = NoRows
    /\ schuhFile = NoRows
    /\ nextId = StartId + 1
    /\ inflight = EmptyBag
    /\ mailbox = {}
    /\ updates = NoRows
    /\ deleted = {}
    /\ ops = 0
    /\ last = NoBuildCall

\* one call of build() of either implementation
Build ==
    \E builder \in WhereBuilders, suchparameter \in Suchparameters :
        /\ ops = 0
        /\ ops' = 1
        /\ last' = BuildCall(builder, suchparameter)
        /\ UNCHANGED <<store, inflight, history>>

BuildNext == Build

BuildSpec == BuildInit /\ [][BuildNext]_vars

\* the tags that the claims take as the tag of each flag; the flag
\* streetware is taken with either spelling of its tag
FlagTags ==
    [flag \in TagFlags |->
        CASE flag = "sport" -> {TagSport}
          [] flag = "vintage" -> {TagVintage}
          [] OTHER -> {TagStreetwear, TagStreetware}]

\* the row has the tag of the flag, in lower or in upper case
HasTagOf(row, flag) ==
    \E tag \in FlagTags[flag] :
        \/ ArrayContains(row.schlagwoerter, {tag})
        \/ ArrayContains(row.schlagwoerter, {toUpperCase(tag)})

\* the flags of the mapping that are true
FlagsSet(suchparameter) == {flag \in TagFlags : IsTrue(ValueOf(suchparameter, flag))}

\* the member of the enum that the text names in some letter case, if any
MemberNamed(text) ==
    {member \in Schuhtyp : toLowerCase(member) = toLowerCase(text)}

\* the conditions that the mapping puts on the columns other than the tags
FieldConditions(row, suchparameter) ==
    /\ \A member \in MemberNamed(ValueOf(suchparameter, "typ")) : row.typ = member
    /\ ValueOf(suchparameter, "bewertung") = <<"2">> => row.bewertung >= 2

\* C16 as claimed: the predicate built matches a product exactly when its
\* tags contain the tag of at least one flag that is true (no condition on
\* tags when no flag is true) and it satisfies every other field condition.
TagsOrFieldsAnd ==
    last.op = "build" =>
        \A id \in DOMAIN schuh :
            Matches(schuh[id], last.where) <=>
                /\ FieldConditions(schuh[id], last.suchparameter)
                /\ \/ FlagsSet(last.suchparameter) = {}
                   \/ \E flag \in FlagsSet(last.suchparameter) :
                         HasTagOf(schuh[id], flag)

\* C17 as claimed: built directly, a typ that names a member in any letter
\* case gives the condition typ = that member, and a typ that names no
\* member gives no condition on typ and no error.
TypMappedOrDropped ==
    (last.op = "build" /\ "typ" \in DOMAIN last.suchparameter) =>
        /\ WhereValid(last.where)
        /\ \A member \in MemberNamed(last.suchparameter["typ"]) :
              last.where.typ = Some(member)
        /\ MemberNamed(last.suchparameter["typ"]) = {} => last.where.typ = Null

-----------------------------------------------------------------------------
(* SchuhService.find and its callers *)

\* the list of the valid names of search parameters
suchparameterNamen ==
    {"artikelnummer", "rating", "typ", "preis", "rabattsatz", "verfuegbar",
     "erscheinungsdatum", "homepage", "schlagwoerter", "modell"}

\* the names that have a case in the switch of build(), the same in both
\* implementations
WhereNames ==
    {"modell", "artikelnummer", "bewertung", "preis", "typ", "verfuegbar",
     "erscheinungsdatum", "homepage"}

\* #checkKeys that accepts every name
checkKeysAny(keys) == TRUE

\* #checkKeys: every name is in the list or is one of the three flags
checkKeys(keys) ==
    \A key \in keys :
        ~(/\ key \notin suchparameterNamen
          /\ key # "vintage"
          /\ key # "streetware"
          /\ key # "sport")

\* #checkEnums: typ is missing or is the name of a member, letter by letter
checkEnums(suchparameter) ==
    LET typ == ValueOf(suchparameter, "typ") IN
    \/ typ = Absent
    \/ typ = Sneaker
    \/ typ = Laufschuh
    \/ typ = Tennisschuh
    \/ typ = Freizeitschuh
    \/ typ = Skateschuh

\* the ids of a set in ascending order
RECURSIVE Ascending(_)
Ascending(ids) ==
    IF ids = {} THEN <<>>
    ELSE LET least == CHOOSE i \in ids : \A j \in ids : i <= j
         IN <<least>> \o Ascending(ids \ {least})

\* SubSeq limited to the elements that are there
Slice(s, skip, take) ==
    SubSeq(s, skip + 1, IF skip + take < Len(s) THEN skip + take ELSE Len(s))

\* a findMany that always begins with the first row found
findManyNoSkip(where, skip, take) ==
    Slice(Ascending({id \in DOMAIN schuh : Matches(schuh[id], where)}), 0, take)

\* prisma.schuh.findMany({ where, skip, take }): the ids of the rows found,
\* in the order of the primary key
findMany(where, skip, take) ==
    Slice(Ascending({id \in DOMAIN schuh : Matches(schuh[id], where)}), skip, take)

\* prisma.schuh.count()
count == Cardinality(DOMAIN schuh)

\* what a read gives: how it ended, the ids of the shoes returned, their
\* schlagwoerter as returned, the total and the number of store queries
Found(result, content, totalElements, queries) ==
    [result |-> result, content |-> content, schlagwoerter |-> <<>>,
     totalElements |-> totalElements, queries |-> queries]

\* a slice with the schlagwoerter as they are stored
createSliceAsStored(schuhe, totalElements) ==
    [Found("ok", schuhe, totalElements, 2) EXCEPT
        !.schlagwoerter = [i \in 1..Len(schuhe) |-> schuh[schuhe[i]].schlagwoerter]]

\* #createSlice: schlagwoerter that are null become the empty array
createSlice(schuhe, totalElements) ==
    [Found("ok", schuhe, totalElements, 2) EXCEPT
        !.schlagwoerter =
            [i \in 1..Len(schuhe) |->
                IF schuh[schuhe[i]].schlagwoerter = Null THEN Some({})
                ELSE schuh[schuhe[i]].schlagwoerter]]

\* findById(): findUnique({ where: { id }, include }); the relations
\* included differ with mitAbbildungen, the columns of the shoe do not
findById(id, mitAbbildungen) ==
    IF id \notin DOMAIN schuh THEN Found("NotFound", <<>>, NaN, 1)
    ELSE [Found("ok", <<id>>, NaN, 1) EXCEPT
            !.schlagwoerter =
                <<IF schuh[id].schlagwoerter = Null THEN Some({})
                  ELSE schuh[id].schlagwoerter>>]

\* #findAll
findAll(pageable) ==
    LET schuhe == findMany(NoWhere, pageable.number * pageable.size, pageable.size) IN
    IF Len(schuhe) = 0 THEN Found("NotFound", <<>>, NaN, 1)
    ELSE createSlice(schuhe, count)

\* find() whose total is the number of the rows that match
findCountsMatches(builder, suchparameter, pageable) ==
    IF DOMAIN suchparameter = {} THEN findAll(pageable)
    ELSE IF ~checkKeys(DOMAIN suchparameter) \/ ~checkEnums(suchparameter)
    THEN Found("NotFound", <<>>, NaN, 0)
    ELSE
        LET where == WhereBuilt(builder, suchparameter)
            schuhe == findMany(where, pageable.number * pageable.size, pageable.size)
        IN
        IF ~WhereValid(where) THEN Found("ValidationError", <<>>, NaN, 1)
        ELSE IF Len(schuhe) = 0 THEN Found("NotFound", <<>>, NaN, 1)
        ELSE createSlice(schuhe,
                Cardinality({id \in DOMAIN schuh : Matches(schuh[id], where)}))

\* find() with the WhereBuilder that the service was given
find(builder, suchparameter, pageable) ==
    IF DOMAIN suchparameter = {} THEN findAll(pageable)
    ELSE IF ~checkKeys(DOMAIN suchparameter) \/ ~checkEnums(suchparameter)
    THEN Found("NotFound", <<>>, NaN, 0)
    ELSE
        LET where == WhereBuilt(builder, suchparameter)
            schuhe == findMany(where, pageable.number * pageable.size, pageable.size)
        IN
        IF ~WhereValid(where) THEN Found("ValidationError", <<>>, NaN, 1)
        ELSE IF Len(schuhe) = 0 THEN Found("NotFound", <<>>, NaN, 1)
        ELSE createSlice(schuhe, count)

\* a search: the parameters page and size as sent, the pageable made of
\* them and what find() gives
FindCall(op, builder, suchparameter, page, size) ==
    [op |-> op, builder |-> builder, suchparameter |-> suchparameter,
     page |-> page, size |-> size,
     pageable |-> createPageable(page, size),
     found |-> find(builder, suchparameter, createPageable(page, size))]

\* a read by id
FindByIdCall(id, mitAbbildungen) ==
    [op |-> IF mitAbbildungen THEN "findByIdMitAbbildungen" ELSE "findById",
     builder |-> "none", suchparameter |-> NoRows,
     page |-> Absent, size |-> Absent,
     pageable |-> [number |-> 0, size |-> 0],
     found |-> findById(id, mitAbbildungen)]

NoFindCall ==
    [op |-> "none", builder |-> "none", suchparameter |-> NoRows,
     page |-> Absent, size |-> Absent,
     pageable |-> [number |-> 0, size |-> 0],
     found |-> Found("none", <<>>, NaN, 0)]

\* the rows in the database when the search runs: both categories, one
\* rating, no tags or one tag
SeedRows ==
    {row \in Rows :
        /\ row.bewertung = 2
        /\ row.schlagwoerter \in
              {Null, Some({toUpperCase(TagSport)}), Some({TagSport}),
               Some({toUpperCase(TagVintage)}), Some({TagStreetwear})}}

\* a populated database, no request
FindInit ==
    /\ \E n \in 0..MaxProducts :
          /\ schuh \in [StartId .. (StartId + n - 1) -> SeedRows]
          /\ nextId = StartId + n
    /\ modell = {}
    /\ abbildung = NoRows
    /\ schuhFile = NoRows
    /\ inflight = EmptyBag
    /\ mailbox = {}
    /\ updates = NoRows
    /\ deleted = {}
    /\ ops = 0
    /\ last = NoFindCall

\* GET /rest without page and size: SchuhController.get
Get ==
    \E builder \in WhereBuilders, query \in Suchparameters :
        /\ ops = 0
        /\ ops' = 1
        /\ last' = FindCall("get", builder, query, Absent, Absent)
        /\ UNCHANGED <<store, inflight, history>>

\* the listings and searches sent with page and size
PageQueries ==
    {sp \in Suchparameters :
        /\ Cardinality(DOMAIN sp) <= 1
        /\ \A key \in DOMAIN sp :
              \/ key = "typ" /\ sp[key] = Laufschuh
              \/ key = "sport" /\ sp[key] = TextTrue}

\* the parameter page: absent, or a page counted from 1
Pages == {Absent} \cup {IntToString(n) : n \in 0..(MaxProducts + 1)}

\* the parameter size: absent, or an integer inside or outside 1..100
Sizes ==
    {Absent} \cup {IntToString(n) : n \in (-1)..MaxProducts}
        \cup {IntToString(MAX_PAGE_SIZE), IntToString(MAX_PAGE_SIZE + 1),
              IntToString(2 * MAX_PAGE_SIZE)}

\* GET /rest with page and size: SchuhController.get
GetPage ==
    \E builder \in WhereBuilders, query \in PageQueries,
       page \in Pages, size \in Sizes :
        /\ ops = 0
        /\ ops' = 1
        /\ last' = FindCall("get", builder, query, page, size)
        /\ UNCHANGED <<store, inflight, history>>

\* one call of findById() by a reader, without the images or with them
GetById ==
    \E id \in StartId .. (StartId + MaxProducts), mitAbbildungen \in BOOLEAN :
        /\ ops = 0
        /\ ops' = 1
        /\ last' = FindByIdCall(id, mitAbbildungen)
        /\ UNCHANGED <<store, inflight, history>>

\* the values of typ that the GraphQL query sends
GraphQLInputs ==
    {suchparameter \in Suchparameters :
        /\ DOMAIN suchparameter \subseteq {"typ"}
        /\ \A key \in DOMAIN suchparameter :
              suchparameter[key] = toUpperCase(Laufschuh)}

\* the GraphQL query schuhe: SchuhQueryResolver.find
Schuhe ==
    \E builder \in WhereBuilders, suchparameter \in GraphQLInputs :
        /\ ops = 0
        /\ ops' = 1
        /\ last' = FindCall("schuhe", builder, suchparameter, Absent, Absent)
        /\ UNCHANGED <<store, inflight, history>>

FindNext ==
    \/ Get
    \/ GetPage
    \/ GetById
    \/ Schuhe

FindSpec == FindInit /\ [][FindNext]_vars

\* a search through find() has ended
Searched == last.op \in {"get", "schuhe"}

\* the mapping of the last search is exactly key -> value
SearchedFor(key, value) ==
    /\ Searched
    /\ DOMAIN last.suchparameter = {key}
    /\ last.suchparameter[key] = value

\* the rows that the last search has returned
Content == {schuh[last.found.content[i]] : i \in 1..Len(last.found.content)}

RatingSearchSucceeds ==
    SearchedFor("bewertung", <<"2">>) =>
        /\ (\E id \in DOMAIN schuh : schuh[id].bewertung >= 2) =>
              last.found.result = "ok"
        /\ \A row \in Content : row.bewertung >= 2

\* C15 as claimed: a search with one flag true returns only products that
\* have the tag of that flag in lower or upper case, and fails with
\* NotFound when no product has it.
FlagSearchReturnsTagged ==
    \A flag \in TagFlags :
        SearchedFor(flag, TextTrue) =>
            /\ last.found.result \in {"ok", "NotFound"}
            /\ \A row \in Content : HasTagOf(row, flag)
            /\ (\A id \in DOMAIN schuh : ~HasTagOf(schuh[id], flag)) =>
                  last.found.result = "NotFound"

\* C18 as claimed: a search through find() for typ = LAUFSCHUH succeeds when
\* products of the category Laufschuh exist and returns only such products.
TypAnyCaseSucceeds ==
    SearchedFor("typ", toUpperCase(Laufschuh)) =>
        /\ (\E id \in DOMAIN schuh : schuh[id].typ = Laufschuh) =>
              last.found.result = "ok"
        /\ \A row \in Content : row.typ = Laufschuh

-----------------------------------------------------------------------------
(* PUT without the header If-Match *)

\* C24: a request that arrives without the header If-Match ends in the
\* handler with 'precondition required': it is never handed to update()
\* (no request without a tag completes as an update or waits for its
\* transaction), and the step leaves every table and the version of the
\* product as they were.
MissingIfMatchRequired ==
    /\ [](\A r \in BagToSet(inflight) : r.tag # NoHeader)
    /\ [][(/\ Completes
            /\ last'.req.op \in {"put", "update"}
            /\ last'.req.tag = NoHeader)
            => /\ last'.req.op = "put"
               /\ last'.result = "PreconditionRequired"
               /\ UNCHANGED <<store, history>>]_vars

MissingIfMatchRequiredWitness ==
    /\ last.req.op = "put"
    /\ last.req.tag = NoHeader
    /\ last.result = "PreconditionRequired"
    /\ last.req.id \in DOMAIN schuh
    /\ schuh[last.req.id].version > 0

-----------------------------------------------------------------------------
(* The order of the checks of update() *)

\* C25 as claimed: update() checks the id, then the form of the tag, then
\* loads the row, then compares the versions.  An update that ends without
\* its transaction has written nothing; without an id it ends with NotFound
\* whatever the tag is; with an id that has no product it ends with
\* VersionInvalid when the tag is not of the exact form and with NotFound
\* when it is.
UpdateChecksInOrder ==
    [][(Completes /\ last'.req.op = "update")
        => /\ UNCHANGED <<store, history>>
           /\ last'.req.id = NoId => last'.result = "NotFound"
           /\ (last'.req.id # NoId /\ last'.req.id \notin DOMAIN schuh)
                => last'.result = IF ExactVersionForm(last'.req.tag)
                                  THEN "NotFound"
                                  ELSE "VersionInvalid"]_vars

-----------------------------------------------------------------------------
(* Atomic writes *)

\* the step is the failed insert of the suspended create r
FailsInsert(r) ==
    /\ r \in Pending("create", "insert")
    /\ inflight' = inflight (-) SetToBag({r})
    /\ last'.req = r
    /\ last'.result # "ok"

\* C26: the writes of one operation are atomic.  An addFile() that fails
\* leaves the files as they were, also the file of the shoe that it had
\* deleted before its insert failed; a create() whose insert fails leaves
\* no shoe, modell or abbildung; and in every state each shoe has its modell
\* and every modell, abbildung and file belongs to a shoe of the store.
WritesAtomic ==
    /\ [](/\ modell = DOMAIN schuh
          /\ DOMAIN abbildung \subseteq DOMAIN schuh
          /\ DOMAIN schuhFile \subseteq DOMAIN schuh)
    /\ [][(AddsFile /\ last'.result # "ok") => UNCHANGED store]_vars
    /\ [][\A r \in BagToSet(inflight) :
            FailsInsert(r) => UNCHANGED <<schuh, modell, abbildung, schuhFile>>]_vars

\* an addFile() has failed for a shoe that had a file, and the file is there
WritesAtomicWitness ==
    /\ last.req.op = "addFile"
    /\ last.result = "ValidationError"
    /\ last.req.id \in DOMAIN schuh
    /\ FilesOf(schuhFile, last.req.id) # <<>>

-----------------------------------------------------------------------------
(* The round trip of the version: ETag of one update, If-Match of the next *)

\* the number of updates that the shoe of the round trip has behind it
RoundTripVersions == {0, 8, 9, 98, 99, 998, 999, 9999}

\* one shoe in the store that has been updated v times
RoundTripInit ==
    \E v \in RoundTripVersions :
        /\ schuh = With(NoRows, StartId,
                        [version |-> v, artikelnummer |-> "SH001", bewertung |-> 1])
        /\ modell = {StartId}
        /\ abbildung = With(NoRows, StartId, 0)
        /\ schuhFile = NoRows
        /\ nextId = StartId + 1
        /\ inflight = EmptyBag
        /\ last = Outcome(NoReq, "none", NaN, "none", NoRow)
        /\ mailbox = {StartId}
        /\ updates = With(NoRows, StartId, v)
        /\ deleted = {}
        /\ ops = 0

\* PUT /rest/:id whose If-Match is the ETag `"${neueVersion}"` of the
\* version that the shoe has
PutWithETag ==
    \E schuhDTO \in UpdateDTOs :
        UpdateBegin(StartId, schuhDtoToSchuhUpdate(schuhDTO),
                    Quoted(schuh[StartId].version))

RoundTripNext ==
    \/ PutWithETag
    \/ UpdateApply

RoundTripSpec == RoundTripInit /\ [][RoundTripNext]_vars

\* the step begins an update() of the shoe id with the tag
BeginsUpdate(id, tag) ==
    /\ ops' # ops
    /\ \/ /\ inflight' = inflight
          /\ last'.req.op = "update"
          /\ last'.req.id = id
          /\ last'.req.tag = tag
       \/ \E r \in BagToSet(inflight') :
             /\ inflight' = inflight (+) SetToBag({r})
             /\ r.op = "update"
             /\ r.id = id
             /\ r.tag = tag

\* C27 as claimed: when the last request was a successful update() and the
\* shoe still has the version that it returned, an update() of the shoe
\* with that version as quoted integer passes the checks of the tag and of
\* the version and goes on to its transaction, whatever the version is.
VersionRoundTrip ==
    [][(/\ last.req.op = "update"
        /\ last.result = "ok"
        /\ last.req.id \in DOMAIN schuh
        /\ schuh[last.req.id].version = last.ret
        /\ BeginsUpdate(last.req.id, Quoted(last.ret)))
        => inflight' # inflight]_vars

-----------------------------------------------------------------------------
(* The slices of find() *)

\* C21: the total of every slice that find() returns, with or without
\* search parameters, is the number of all shoes in the store, not the
\* number of the shoes that match.
TotalCountsAll ==
    (Searched /\ last.found.result = "ok") =>
        last.found.totalElements = Cardinality(DOMAIN schuh)

\* a search with parameters has returned fewer shoes than its page holds
\* and than its total
TotalCountsAllWitness ==
    /\ Searched
    /\ DOMAIN last.suchparameter # {}
    /\ last.found.result = "ok"
    /\ Len(last.found.content) < last.pageable.size
    /\ Len(last.found.content) < last.found.totalElements

\* the ids of the shoes that match the search parameters of the last
\* search, in the order of the store
Matching ==
    LET where == IF DOMAIN last.suchparameter = {} THEN NoWhere
                 ELSE WhereBuilt(last.builder, last.suchparameter)
    IN Ascending({id \in DOMAIN schuh : Matches(schuh[id], where)})

\* the search parameters of the last search are valid
ValidSearch ==
    /\ Searched
    /\ checkKeys(DOMAIN last.suchparameter)
    /\ checkEnums(last.suchparameter)
    /\ last.found.result # "ValidationError"

\* C22: for valid search parameters and the pageable (number, size), find()
\* returns exactly the matching shoes at the positions number * size up to
\* but not including number * size + size of the order of the store, so at
\* most size shoes, and fails with NotFound exactly when no matching shoe
\* is at these positions, also when shoes match at other positions.
PageOfMatches ==
    ValidSearch =>
        LET from == last.pageable.number * last.pageable.size
            positions == {i \in 1..Len(Matching) :
                            from < i /\ i <= from + last.pageable.size}
        IN
        /\ last.found.result = IF positions = {} THEN "NotFound" ELSE "ok"
        /\ Len(last.found.content) = Cardinality(positions)
        /\ Len(last.found.content) <= last.pageable.size
        /\ \A k \in 1..Len(last.found.content) :
              last.found.content[k] = Matching[from + k]

\* a search with parameters has returned the second matching shoe as its
\* second page of size 1
PageOfMatchesWitness ==
    /\ ValidSearch
    /\ DOMAIN last.suchparameter # {}
    /\ last.pageable = [number |-> 1, size |-> 1]
    /\ Len(Matching) = 2
    /\ last.found.result = "ok"
    /\ last.found.content = <<Matching[2]>>

\* C23: every shoe that a read returns, findById() with or without the
\* images and find() with or without search parameters, has schlagwoerter
\* that are not null; what is stored as null is returned as the empty array
\* and what is stored otherwise is returned as it is.
SchlagwoerterNeverNull ==
    last.op \in {"get", "schuhe", "findById", "findByIdMitAbbildungen"} =>
        /\ Len(last.found.schlagwoerter) = Len(last.found.content)
        /\ \A i \in 1..Len(last.found.content) :
              LET stored == schuh[last.found.content[i]].schlagwoerter IN
              /\ last.found.schlagwoerter[i] # Null
              /\ last.found.schlagwoerter[i] =
                    IF stored = Null THEN Some({}) ELSE stored

\* a listing has returned a shoe stored without schlagwoerter and a shoe
\* stored with one
SchlagwoerterNeverNullWitness ==
    /\ Searched
    /\ last.found.result = "ok"
    /\ \E i, j \in 1..Len(last.found.content) :
          /\ schuh[last.found.content[i]].schlagwoerter = Null
          /\ last.found.schlagwoerter[i] = Some({})
          /\ schuh[last.found.content[j]].schlagwoerter # Null

\* the parameter size of the last search is an integer outside 1..100
SizeOutOfRange ==
    LET sizeFloat == Number(last.size) IN
    /\ last.op = "get"
    /\ ~isNaN(sizeFloat)
    /\ isInteger(sizeFloat)
    /\ (sizeFloat.whole < 1 \/ sizeFloat.whole > MAX_PAGE_SIZE)

\* C29: a listing or search whose pageable createPageable() has made of an
\* integer size outside 1..100 fails with NotFound, whatever the store
\* holds, whatever the page and the search parameters are: the size of the
\* pageable is 0 and find() asks for no rows.
SizeOutOfRangeNotFound ==
    SizeOutOfRange =>
        /\ last.pageable.size = 0
        /\ last.found.result = "NotFound"
        /\ last.found.content = <<>>

\* a listing with size=200 has failed although the store holds shoes
SizeOutOfRangeNotFoundWitness ==
    /\ SizeOutOfRange
    /\ last.size = IntToString(2 * MAX_PAGE_SIZE)
    /\ last.page = Absent
    /\ DOMAIN last.suchparameter = {}
    /\ Cardinality(DOMAIN schuh) = MaxProducts
    /\ last.found.result = "NotFound"

\* C30 as claimed: #checkKeys and build() agree on the names.  Every name of
\* a search that #checkKeys accepts, the three flags aside, has a case in
\* build() and becomes a condition of the WHERE clause, and every name that
\* has a case in build() is accepted by #checkKeys.
NamesAgree ==
    Searched =>
        \A key \in DOMAIN last.suchparameter \ TagFlags :
            LET alone == With(NoRows, key, last.suchparameter[key]) IN
            /\ key \in WhereNames => checkKeys({key})
            /\ checkKeys({key}) => key \in WhereNames
            /\ (checkKeys({key}) /\ checkEnums(alone)) =>
                  WhereBuilt(last.builder, alone) # WhereBuilt(last.builder, NoRows)

-----------------------------------------------------------------------------
(* find() between the writes of other requests: its two store queries *)

\* the rows in the database and the rows created while a search runs
SliceRows == {row \in SeedRows : row.schlagwoerter \in {Null, Some({TagSport})}}

\* the values of page and of size sent with the searches
SlicePages == {Absent, IntToString(2)}
SliceSizes == {Absent, IntToString(1)}

\* a populated database, no request
SliceInit ==
    /\ \E n \in 0..MaxProducts :
          /\ schuh \in [StartId .. (StartId + n - 1) -> SliceRows]
          /\ nextId = StartId + n
    /\ modell = {}
    /\ abbildung = NoRows
    /\ schuhFile = NoRows
    /\ inflight = EmptyBag
    /\ mailbox = {}
    /\ updates = NoRows
    /\ deleted = {}
    /\ ops = 0
    /\ last = NoFindCall

\* find() and #findAll() up to "await findMany": the search ends when it
\* fails, otherwise it holds the rows loaded and goes on to count()
FindMany ==
    \E builder \in WhereBuilders, query \in PageQueries,
       page \in SlicePages, size \in SliceSizes :
        LET call == FindCall("get", builder, query, page, size) IN
        /\ CanStart
        /\ inflight = EmptyBag
        /\ ops' = ops + 1
        /\ UNCHANGED <<store, history>>
        /\ IF call.found.result # "ok"
           THEN last' = call /\ UNCHANGED inflight
           ELSE Suspend([op |-> "find", pc |-> "count", call |-> call])
                /\ UNCHANGED last

\* "const totalElements = await this.count()" and #createSlice: the rows are
\* the ones loaded, the total is the number of rows now
FindCount ==
    \E r \in Pending("find", "count") :
        /\ Resume(r)
        /\ last' = [r.call EXCEPT !.found.totalElements = count]
        /\ UNCHANGED <<store, history, ops>>

\* the transaction of a delete() commits: tx.schuh.delete({ where: { id } })
DeleteCommits ==
    \E id \in DOMAIN schuh :
        /\ CanStart
        /\ ops' = ops + 1
        /\ schuh' = Without(schuh, id)
        /\ deleted' = deleted \cup {id}
        /\ UNCHANGED <<modell, abbildung, schuhFile, nextId, inflight, last,
                       mailbox, updates>>

\* the transaction of a create() commits: tx.schuh.create({ data: schuh })
CreateCommits ==
    \E row \in SliceRows :
        /\ CanStart
        /\ nextId < StartId + MaxProducts + 1
        /\ ops' = ops + 1
        /\ schuh' = With(schuh, nextId, row)
        /\ nextId' = nextId + 1
        /\ UNCHANGED <<modell, abbildung, schuhFile, inflight, last, history>>

SliceNext ==
    \/ FindMany
    \/ FindCount
    \/ DeleteCommits
    \/ CreateCommits

SliceSpec == SliceInit /\ [][SliceNext]_vars

\* C28 as claimed: the total of every slice that find() returns is at least
\* the number of shoes in its content, also when a delete() or a create()
\* has committed between the listing query and the count query.
TotalCoversContent ==
    (Searched /\ last.found.result = "ok") =>
        last.found.totalElements >= Len(last.found.content)

====
